---- MODULE Spec2Model ----
(***************************************************************************)
(* Invoice field extraction of mcp-server-box (src/src/pdf_processor.py).  *)
(*                                                                         *)
(* Texts are TLA+ strings; a character is a string of length 1.            *)
(* Confidences are exact rationals counted in sixtieths (1.0 = 60), so     *)
(* that 1.0 - 0.1*i and the mean of up to three contributions are whole    *)
(* numbers.  Monetary amounts are counted in cents.                        *)
(***************************************************************************)
EXTENDS Integers, Sequences, FiniteSets, TLC

VARIABLES
    doc,        \* the document handed to the extractor calls: [path, text]
    ret,        \* the value returned by the last extractor call
    dir,        \* the directory listing walked by extract_multiple_invoices
    pc,         \* position of extract_multiple_invoices
    idx,        \* index in dir of the next pdf_file of its loop
    invoices,   \* its list of invoices
    errlog,     \* logger.error records written so far
    escaped,    \* TRUE when an exception reached the caller of the batch
    disk,       \* the files under the invoice directory: file name -> [text, fail]
    cache,      \* InvoiceTools._cache: file name -> record
    calls       \* the calls of self.extractor.extract_invoice_fields made so far, in
                \* order: [file_name, path, result]

vars == <<doc, ret, dir, pc, idx, invoices, errlog, escaped, disk, cache, calls>>

(***************************************************************************)
(* Characters                                                              *)
(***************************************************************************)
UpperStr == "ABCDEFGHIJKLMNOPQRSTUVWXYZ"
LowerStr == "abcdefghijklmnopqrstuvwxyz"
DigitStr == "0123456789"

CharAt(s, i) == SubSeq(s, i, i)
CharsOf(s) == {CharAt(s, i) : i \in 1..Len(s)}

UpperSet == CharsOf(UpperStr)
DigitSet == CharsOf(DigitStr)
\* \s of the re module and the characters str.strip() removes
SpaceSet == {" ", "\t", "\n", "\r", "\f"}

\* str.lower() on one character; also the case folding of re.IGNORECASE
LowerOf ==
    [c \in UpperSet |->
        CharAt(LowerStr, CHOOSE i \in 1..Len(UpperStr) : CharAt(UpperStr, i) = c)]
Fold(c) == IF c \in UpperSet THEN LowerOf[c] ELSE c
FoldSet(S) == {Fold(c) : c \in S}

DigitVal ==
    [c \in DigitSet |-> (CHOOSE i \in 1..Len(DigitStr) : CharAt(DigitStr, i) = c) - 1]

\* str.lower(), computed by halves to keep the evaluation shallow
RECURSIVE Lower(_)
Lower(s) ==
    IF s = "" THEN ""
    ELSE IF Len(s) = 1 THEN Fold(s)
    ELSE LET h == Len(s) \div 2
         IN Lower(SubSeq(s, 1, h)) \o Lower(SubSeq(s, h + 1, Len(s)))

\* str.strip(): what lies between the first and the last non-space character
Strip(s) ==
    LET keep == {i \in 1..Len(s) : CharAt(s, i) \notin SpaceSet}
    IN IF keep = {} THEN ""
       ELSE SubSeq(s, CHOOSE i \in keep : \A j \in keep : i <= j,
                      CHOOSE i \in keep : \A j \in keep : i >= j)

\* kw in s
Contains(s, kw) ==
    \E i \in 1..(Len(s) - Len(kw) + 1) : SubSeq(s, i, i + Len(kw) - 1) = kw

\* str.replace(c, "") for a one-character c
RECURSIVE Remove(_, _)
Remove(s, c) ==
    IF s = "" THEN ""
    ELSE IF Len(s) = 1 THEN (IF s = c THEN "" ELSE s)
    ELSE LET h == Len(s) \div 2
         IN Remove(SubSeq(s, 1, h), c) \o Remove(SubSeq(s, h + 1, Len(s)), c)

\* str.split("\n"): the pieces between consecutive newlines
SplitLines(s) ==
    LET nl == {i \in 1..Len(s) : CharAt(s, i) = "\n"}
        \* position of the k-th newline; 0 before the first, Len(s)+1 after the last
        at(k) == IF k = 0 THEN 0
                 ELSE IF k > Cardinality(nl) THEN Len(s) + 1
                 ELSE CHOOSE i \in nl : Cardinality({j \in nl : j <= i}) = k
    IN [k \in 1..(Cardinality(nl) + 1) |-> SubSeq(s, at(k - 1) + 1, at(k) - 1)]

\* the element of a singleton set: {F(x) : x \in {e}} binds the value of e to x
TheOne(S) == CHOOSE x \in S : TRUE

\* least element of a non-empty set of numbers
Least(S) == CHOOSE i \in S : \A j \in S : i <= j

RECURSIVE JoinLines(_)
JoinLines(ls) ==
    IF ls = <<>> THEN ""
    ELSE IF Len(ls) = 1 THEN ls[1]
    ELSE ls[1] \o "\n" \o JoinLines(Tail(ls))

(***************************************************************************)
(* The fragment of the re module the PATTERNS use: a pattern is a sequence *)
(* of items, each a character class with a greedy quantifier, an           *)
(* alternation of sub-patterns, or a bracket of capture group 1.  Matching *)
(* backtracks in re's order: longest repetition first, alternatives left   *)
(* to right.  Classes hold case-folded characters (re.IGNORECASE).         *)
(* re.MULTILINE changes ^ and $ only, which no pattern uses.               *)
(***************************************************************************)
Unbounded == -1

Cls(S, lo, hi) == [k |-> "cls", set |-> FoldSet(S), min |-> lo, max |-> hi, alts |-> <<>>]
Alt(as) == [k |-> "alt", set |-> {}, min |-> 0, max |-> 0, alts |-> as]
Open == [k |-> "open", set |-> {}, min |-> 0, max |-> 0, alts |-> <<>>]
Close == [k |-> "close", set |-> {}, min |-> 0, max |-> 0, alts |-> <<>>]

One(S) == <<Cls(S, 1, 1)>>
Opt(S) == <<Cls(S, 0, 1)>>
Star(S) == <<Cls(S, 0, Unbounded)>>
Plus(S) == <<Cls(S, 1, Unbounded)>>
Rep(S, lo, hi) == <<Cls(S, lo, hi)>>
Lit(s) == [i \in 1..Len(s) |-> Cls({CharAt(s, i)}, 1, 1)]

NoMatch == [ok |-> FALSE, s |-> 0, e |-> 0]

\* first position in lo..hi whose character is not in set, hi + 1 if there is none
RECURSIVE FirstOutside(_, _, _, _)
FirstOutside(set, text, lo, hi) ==
    IF lo > hi THEN lo
    ELSE IF lo = hi THEN (IF Fold(CharAt(text, lo)) \in set THEN lo + 1 ELSE lo)
    ELSE LET mid == (lo + hi) \div 2
             l == FirstOutside(set, text, lo, mid)
         IN IF l <= mid THEN l ELSE FirstOutside(set, text, mid + 1, hi)

\* number of consecutive characters of text from pos on that are in set, at most max
RunLen(set, text, pos, max) ==
    LET hi == IF max = Unbounded \/ pos + max - 1 > Len(text) THEN Len(text)
              ELSE pos + max - 1
    IN FirstOutside(set, text, pos, hi) - pos

RECURSIVE MatchHere(_, _, _, _)
RECURSIVE TryCounts(_, _, _, _, _, _)
RECURSIVE TryAlts(_, _, _, _, _)

\* match items against text at pos; cap holds the span of group 1 so far
MatchHere(items, text, pos, cap) ==
    IF items = <<>> THEN [cap EXCEPT !.ok = TRUE]
    ELSE LET it == Head(items)
             rest == Tail(items)
         IN CASE it.k = "open" -> MatchHere(rest, text, pos, [cap EXCEPT !.s = pos])
              [] it.k = "close" -> MatchHere(rest, text, pos, [cap EXCEPT !.e = pos])
              [] it.k = "alt" -> TryAlts(it.alts, rest, text, pos, cap)
              [] it.k = "cls" ->
                    LET n == RunLen(it.set, text, pos, it.max)
                    IN IF n < it.min THEN NoMatch
                       ELSE TryCounts(n, it.min, rest, text, pos, cap)

\* greedy repetition: k characters first, then fewer, down to min
TryCounts(k, min, rest, text, pos, cap) ==
    LET r == MatchHere(rest, text, pos + k, cap)
    IN IF r.ok THEN r
       ELSE IF k = min THEN NoMatch
       ELSE TryCounts(k - 1, min, rest, text, pos, cap)

TryAlts(as, rest, text, pos, cap) ==
    IF as = <<>> THEN NoMatch
    ELSE LET r == MatchHere(Head(as) \o rest, text, pos, cap)
         IN IF r.ok THEN r ELSE TryAlts(Tail(as), rest, text, pos, cap)

\* re.search: the match at the leftmost position in lo..hi that has one
RECURSIVE SearchIn(_, _, _, _)
SearchIn(items, text, lo, hi) ==
    IF lo = hi THEN MatchHere(items, text, lo, NoMatch)
    ELSE LET mid == (lo + hi) \div 2
             l == SearchIn(items, text, lo, mid)
         IN IF l.ok THEN l ELSE SearchIn(items, text, mid + 1, hi)
Search(items, text) == SearchIn(items, text, 1, Len(text) + 1)

\* match.group(1)
Group1(text, m) == SubSeq(text, m.s, m.e - 1)

(***************************************************************************)
(* PatternExtractor.PATTERNS                                               *)
(***************************************************************************)
SepSet == SpaceSet \cup {":"}
TokenSet == UpperSet \cup DigitSet \cup {"-"}
AmountSet == DigitSet \cup {","}
DateSep == {"-", "/"}

\* (\d{1,2}[-/]\d{1,2}[-/]\d{2,4})
DateGroup ==
    <<Open>> \o Rep(DigitSet, 1, 2) \o One(DateSep) \o Rep(DigitSet, 1, 2)
        \o One(DateSep) \o Rep(DigitSet, 2, 4) \o <<Close>>
\* [\s:]*\$?([0-9,]+\.[0-9]{2})
AmountTail ==
    Star(SepSet) \o Opt({"$"}) \o <<Open>> \o Plus(AmountSet) \o One({"."})
        \o Rep(DigitSet, 2, 2) \o <<Close>>

PATTERNS ==
    [invoice_number |-> <<
        Lit("Invoice") \o Star(SpaceSet)
            \o <<Alt(<<Lit("Number"), Lit("No") \o Opt({"."}), Lit("#")>>)>>
            \o Star(SepSet) \o <<Open>> \o Plus(TokenSet) \o <<Close>>,
        Lit("Invoice") \o Star(SpaceSet) \o Opt({"#"}) \o Star(SepSet)
            \o <<Open>> \o Rep(TokenSet, 4, Unbounded) \o <<Close>>,
        Lit("INV") \o Opt(SpaceSet \cup {"-"})
            \o <<Open>> \o Plus(TokenSet) \o <<Close>> >>,
     invoice_date |-> <<
        Lit("Invoice") \o Star(SpaceSet) \o Lit("Date") \o Star(SepSet) \o DateGroup,
        Lit("Date") \o Star(SepSet) \o DateGroup,
        DateGroup >>,
     due_date |-> <<
        Lit("Due") \o Star(SpaceSet) \o Lit("Date") \o Star(SepSet) \o DateGroup,
        Lit("Payment") \o Star(SpaceSet) \o Lit("Due") \o Star(SepSet) \o DateGroup >>,
     total_amount |-> <<
        Lit("Total") \o AmountTail,
        Lit("Grand") \o Star(SpaceSet) \o Lit("Total") \o AmountTail,
        Lit("TOTAL") \o AmountTail >>,
     tax_amount |-> <<
        Lit("Tax") \o AmountTail,
        Lit("GST") \o AmountTail,
        Lit("VAT") \o AmountTail >>,
     subtotal |-> <<
        Lit("Subtotal") \o AmountTail,
        Lit("Sub") \o Opt(SpaceSet \cup {"-"}) \o Lit("Total") \o AmountTail >>]

FieldTypes == DOMAIN PATTERNS

\* Optional[str]: <<>> is None, <<s>> is the string s
None == <<>>
Some(s) == <<s>>

\* confidence arithmetic in sixtieths
ConfOne == 60
ConfTenth == 6

\* extract_field without the return inside the loop: the last matching rule wins
RECURSIVE ExtractFieldFrom_NoReturn(_, _, _)
ExtractFieldFrom_NoReturn(text, patterns, pattern_idx) ==
    IF pattern_idx >= Len(patterns) THEN <<None, 0>>
    ELSE TheOne({IF later[1] # None \/ ~m.ok THEN later
                 ELSE <<Some(Strip(Group1(text, m))), ConfOne - pattern_idx * ConfTenth>> :
                    m \in {Search(patterns[pattern_idx + 1], text)},
                    later \in {ExtractFieldFrom_NoReturn(text, patterns, pattern_idx + 1)}})

\* PatternExtractor.extract_field: the loop over enumerate(patterns)
RECURSIVE ExtractFieldFrom(_, _, _)
ExtractFieldFrom(text, patterns, pattern_idx) ==
    IF pattern_idx >= Len(patterns) THEN <<None, 0>>
    ELSE TheOne({IF m.ok
                 THEN <<Some(Strip(Group1(text, m))), ConfOne - pattern_idx * ConfTenth>>
                 ELSE ExtractFieldFrom(text, patterns, pattern_idx + 1) :
                    m \in {Search(patterns[pattern_idx + 1], text)}})

\* PATTERNS.get with a default that is not the empty list
PatternsGet_Default(field_type) ==
    IF field_type \in FieldTypes THEN PATTERNS[field_type] ELSE PATTERNS["invoice_number"]

\* PATTERNS.get(field_type, [])
PatternsGet(field_type) ==
    IF field_type \in FieldTypes THEN PATTERNS[field_type] ELSE <<>>

ExtractField(text, field_type) == ExtractFieldFrom(text, PatternsGet(field_type), 0)


(***************************************************************************)
(* PatternExtractor.extract_vendor_name                                    *)
(***************************************************************************)
VendorScanLimit == 20
VendorMinLen == 5
VendorMaxLen == 100
VendorConf == 42
StopList == <<"invoice", "bill", "receipt", "quote", "date:", "invoice #">>

\* lines[:n]
Take(seq, n) == SubSeq(seq, 1, IF Len(seq) < n THEN Len(seq) ELSE n)

\* any(keyword in stripped.lower() for keyword in [...])
HasStopWord(stripped) == \E i \in 1..Len(StopList) : Contains(Lower(stripped), StopList[i])

\* the condition under which the loop returns the line
\* the length test with >= 5 in place of > 5
VendorLineOk_AtLeast(stripped) ==
    /\ stripped # ""
    /\ Len(stripped) >= VendorMinLen
    /\ Len(stripped) < VendorMaxLen
    /\ ~HasStopWord(stripped)

VendorLineOk(stripped) ==
    /\ stripped # ""
    /\ Len(stripped) > VendorMinLen
    /\ Len(stripped) < VendorMaxLen
    /\ ~HasStopWord(stripped)

RECURSIVE VendorScan(_)
VendorScan(lines) ==
    IF lines = <<>> THEN <<"", 0>>
    ELSE LET stripped == Strip(Head(lines))
         IN IF VendorLineOk(stripped) THEN <<stripped, VendorConf>>
            ELSE VendorScan(Tail(lines))

ScannedLines(text) == Take(SplitLines(text), VendorScanLimit)

ExtractVendorName(text) == VendorScan(ScannedLines(text))

(***************************************************************************)
(* PatternExtractor.extract_amounts                                        *)
(***************************************************************************)
RECURSIVE DigitsValue(_, _)
DigitsValue(s, acc) ==
    IF s = "" THEN acc ELSE DigitsValue(Tail(s), 10 * acc + DigitVal[CharAt(s, 1)])

AllDigits(s) == \A i \in 1..Len(s) : CharAt(s, i) \in DigitSet

\* float(s) in cents, for the shapes group 1 of an amount pattern can leave
\* after the commas are removed: digits (possibly none), a point, two digits.
\* Any other string is reported as the ValueError float() raises.
ParseFloat(s) ==
    LET n == Len(s)
    IN IF /\ n >= 3
          /\ CharAt(s, n - 2) = "."
          /\ AllDigits(SubSeq(s, 1, n - 3))
          /\ AllDigits(SubSeq(s, n - 1, n))
       THEN [ok |-> TRUE,
             cents |-> 100 * DigitsValue(SubSeq(s, 1, n - 3), 0)
                           + DigitsValue(SubSeq(s, n - 1, n), 0)]
       ELSE [ok |-> FALSE, cents |-> 0]

\* float(x.replace(",", "").replace("$", ""))
ParseAmount(str) == ParseFloat(Remove(Remove(str, ","), "$"))

AmountField == [total |-> "total_amount", tax |-> "tax_amount", subtotal |-> "subtotal"]

\* `if total_str:` -- None and "" are both false
Truthy(opt) == opt # None /\ opt[1] # ""

\* extract_amounts that writes a zero for an amount type without a match
ExtractAmounts_ZeroFill(text) ==
    TheOne({[raised |-> FALSE,
             amounts |-> [k \in DOMAIN AmountField |->
                            IF Truthy(got[k][1])
                            THEN <<ParseAmount(got[k][1][1]).cents, got[k][2]>>
                            ELSE <<0, 0>>]] :
            got \in {[k \in DOMAIN AmountField |-> ExtractField(text, AmountField[k])]}})

\* extract_amounts: raised is TRUE when a float() raised, else amounts maps
\* each key written to (value, confidence)
ExtractAmounts(text) ==
    TheOne({LET found == {k \in DOMAIN AmountField : Truthy(got[k][1])}
                parsed == [k \in found |-> ParseAmount(got[k][1][1])]
            IN IF \E k \in found : ~parsed[k].ok
               THEN [raised |-> TRUE, amounts |-> <<>>]
               ELSE [raised |-> FALSE,
                     amounts |-> [k \in found |-> <<parsed[k].cents, got[k][2]>>]] :
            got \in {[k \in DOMAIN AmountField |-> ExtractField(text, AmountField[k])]}})

(***************************************************************************)
(* ExtractedInvoice and InvoiceFieldExtractor.extract_invoice_fields       *)
(***************************************************************************)
\* the dataclass defaults, given file_name
DefaultInvoice(file_name) ==
    [file_name |-> file_name, invoice_number |-> "", invoice_date |-> "",
     due_date |-> "", vendor_name |-> "", vendor_address |-> "",
     customer_name |-> "", customer_address |-> "",
     subtotal |-> 0, tax_amount |-> 0, total_amount |-> 0,
     currency |-> "USD", line_items |-> <<>>, raw_text |-> "",
     confidence_score |-> 0]

\* str(pdf_path) in place of Path(pdf_path).name
RECURSIVE JoinPath(_)
JoinPath(path) ==
    IF Len(path) = 1 THEN path[1]
    ELSE JoinPath(SubSeq(path, 1, Len(path) - 1)) \o "/" \o path[Len(path)]
PathName_Whole(path) == JoinPath(path)

\* Path(pdf_path).name: the last component of a path given as its components
PathName(path) == path[Len(path)]

\* `value or ""`
OrEmpty(opt) == IF Truthy(opt) THEN opt[1] ELSE ""

TotalPresentConf == 48

RECURSIVE SumSeq(_)
SumSeq(q) == IF q = <<>> THEN 0 ELSE Head(q) + SumSeq(Tail(q))

\* the list `confidences` of the three contributions
Confidences(invoice, inv_conf, date_conf) ==
    << IF invoice.invoice_number # "" THEN inv_conf ELSE 0,
       IF invoice.invoice_date # "" THEN date_conf ELSE 0,
       IF invoice.total_amount > 0 THEN TotalPresentConf ELSE 0 >>

\* the mean over all three contributions, zeros included
OverallConfidence_MeanOfAll(confidences) == SumSeq(confidences) \div Len(confidences)

\* the sum of the contributions, not divided
OverallConfidence_Sum(confidences) == SumSeq(SelectSeq(confidences, LAMBDA c : c > 0))

\* sum(valid_confidences) / len(valid_confidences) if valid_confidences else 0
OverallConfidence(confidences) ==
    LET valid_confidences == SelectSeq(confidences, LAMBDA c : c > 0)
    IN IF valid_confidences # <<>>
       THEN SumSeq(valid_confidences) \div Len(valid_confidences)
       ELSE 0

\* the statements of the try block, in order
Steps ==
    <<"extract_text", "invoice_number", "invoice_date", "due_date",
      "extract_amounts", "extract_vendor_name", "confidence">>

\* The steps in which an exception can be injected.  Only extract_text has
\* raise statements of its own; the others stand for an exception of the
\* runtime inside the call, which `except Exception` catches alike.
FailPoints ==
    {"none", "extract_text", "invoice_number", "invoice_date", "due_date",
     "extract_amounts", "extract_vendor_name"}

TextSteps == {"invoice_number", "invoice_date", "due_date"}

\* The effect of one statement group on the local state st of the call, on
\* document d with fault f; failed names the group that raised.
RunStep(step, st, d, f) ==
    IF step = f THEN [st EXCEPT !.failed = step]
    ELSE IF step = "extract_text" THEN [st EXCEPT !.invoice.raw_text = d.text]
    ELSE IF step \in TextSteps THEN
        LET r == TheOne({ExtractField(d.text, step)})
        IN [st EXCEPT !.invoice[step] = OrEmpty(r[1]),
                      !.inv_conf = IF step = "invoice_number" THEN r[2] ELSE @,
                      !.date_conf = IF step = "invoice_date" THEN r[2] ELSE @]
    ELSE IF step = "extract_amounts" THEN
        LET a == TheOne({ExtractAmounts(d.text)})
        IN IF a.raised THEN [st EXCEPT !.failed = step]
           ELSE [st EXCEPT
                   !.invoice.total_amount =
                       IF "total" \in DOMAIN a.amounts THEN a.amounts["total"][1] ELSE @,
                   !.invoice.tax_amount =
                       IF "tax" \in DOMAIN a.amounts THEN a.amounts["tax"][1] ELSE @,
                   !.invoice.subtotal =
                       IF "subtotal" \in DOMAIN a.amounts THEN a.amounts["subtotal"][1] ELSE @]
    ELSE IF step = "extract_vendor_name" THEN
        [st EXCEPT !.invoice.vendor_name = ExtractVendorName(d.text)[1]]
    ELSE
        [st EXCEPT !.invoice.confidence_score =
            OverallConfidence(Confidences(st.invoice, st.inv_conf, st.date_conf))]

\* the try block with the confidence computed in a finally clause: it is
\* written from whatever was extracted when a statement raises
RECURSIVE RunFrom_Finally(_, _, _, _)
RunFrom_Finally(i, st, d, f) ==
    IF i > Len(Steps) THEN st
    ELSE IF st.failed # "none"
    THEN [st EXCEPT !.invoice.confidence_score =
            OverallConfidence(Confidences(st.invoice, st.inv_conf, st.date_conf))]
    ELSE TheOne({RunFrom_Finally(i + 1, nx, d, f) : nx \in {RunStep(Steps[i], st, d, f)}})

\* the try block from statement i on: stops at the first statement that raises
RECURSIVE RunFrom(_, _, _, _)
RunFrom(i, st, d, f) ==
    IF i > Len(Steps) \/ st.failed # "none" THEN st
    ELSE TheOne({RunFrom(i + 1, nx, d, f) : nx \in {RunStep(Steps[i], st, d, f)}})

TryBlock(d, f) ==
    RunFrom(1, [invoice |-> DefaultInvoice(PathName(d.path)),
                inv_conf |-> 0, date_conf |-> 0, failed |-> "none"], d, f)

\* logger.error records: <<function that logged, file>>
LogOf(st, d) ==
    IF st.failed = "none" THEN <<>>
    ELSE (IF st.failed = "extract_text" THEN <<<<"extract_text", d.path>>>> ELSE <<>>)
            \o <<<<"extract_invoice_fields", d.path>>>>

\* extract_invoice_fields without the except clause: the exception leaves the call
ExtractInvoiceFields_NoExcept(d, f) ==
    TheOne({[invoice |-> st.invoice, raised |-> st.failed # "none", log |-> <<>>] :
                st \in {TryBlock(d, f)}})

\* extract_invoice_fields(pdf_path) on document d with fault f: the record it
\* returns, whether an exception leaves the call, and what it logged.
\* `except Exception` catches whatever the try block raised.
ExtractInvoiceFields(d, f) ==
    TheOne({[invoice |-> st.invoice, raised |-> FALSE, log |-> LogOf(st, d)] :
                st \in {TryBlock(d, f)}})

(***************************************************************************)
(* process_invoices_in_directory                                           *)
(***************************************************************************)
RECURSIVE GCD(_, _)
GCD(a, b) == IF b = 0 THEN a ELSE GCD(b, a % b)

\* the quotient n / d of a true division, d > 0, as a fraction in lowest terms
Quotient(n, d) == IF n = 0 THEN <<0, 1>> ELSE <<n \div GCD(n, d), d \div GCD(n, d)>>

\* the whole number n as a fraction; the literal 0 of the else branch is Whole(0)
Whole(n) == <<n, 1>>

\* sum(inv.<field> for inv in invoices)
SumField(invs, field) == SumSeq([i \in 1..Len(invs) |-> invs[i][field]])

\* the mean over the records with a confidence above zero only
AverageConfidence_NonZero(invs) ==
    IF \E i \in 1..Len(invs) : invs[i].confidence_score > 0
    THEN Quotient(SumField(invs, "confidence_score"),
                  Cardinality({i \in 1..Len(invs) : invs[i].confidence_score > 0}))
    ELSE Whole(0)

\* lines 281-285: confidences in sixtieths, so the mean is a fraction of sixtieths
AverageConfidence(invs) ==
    IF Len(invs) > 0
    THEN Quotient(SumField(invs, "confidence_score"), Len(invs))
    ELSE Whole(0)

\* ExtractedInvoice.to_dict: asdict(self), a dict of the fields
ToDict(invoice) == [k \in DOMAIN invoice |-> invoice[k]]

\* lines 275-287: the dict returned for the list invs of extract_multiple_invoices
ProcessResult(invs) ==
    [total_processed |-> Len(invs),
     invoices |-> [i \in 1..Len(invs) |-> ToDict(invs[i])],
     summary |-> [total_amount |-> SumField(invs, "total_amount"),
                  total_tax |-> SumField(invs, "tax_amount"),
                  average_confidence |-> AverageConfidence(invs)]]

(***************************************************************************)
(* Inputs                                                                  *)
(***************************************************************************)
MaxBodyLines == 2
MaxPad == 21
MaxFiles == 2

E2EText ==
    "Invoice Number: INV-2024-001\nInvoice Date: 01/15/2024\nSubtotal: $100.00\nTax: $8.00\nTotal: $108.00"

\* invoice number by rule 0, invoice date by rule 1, a total above zero
ConfExampleText ==
    "Invoice Number: INV-2024-001\nDate: 1/2/24\nTotal: $108.00"

Line99 ==
    "Northwind Traders and Sons Limited Northwind Traders and Sons Limited Northwind Traders and Sons Li"
Line100 ==
    "Northwind Traders and Sons Limited Northwind Traders and Sons Limited Northwind Traders and Sons Lim"

\* lines tried one at a time
LinePool ==
    {"Invoice Number: INV-2024-001", "Invoice: AB-1234", "INV-77",
     "Invoice Date: 01/15/2024", "Due Date: 02/15/2024", "Payment Due 3-1-24",
     "on 03/04/2025",
     "Subtotal: $100.00", "Sub-Total 99.50", "Tax: $8.00", "GST: 0.00",
     "Total: $108.00", "Grand Total: 1,234.56", "Total: ,.50", "VAT:\n$ 7.00",
     "  Acme Corporation \t", "INVOICE #12345", "Abcde", "Abcdef", "Billing Dept",
     "", "   ", Line99, Line100}

\* lines combined in every order
CorePool ==
    {"Invoice Number: INV-2024-001", "Invoice Date: 01/15/2024",
     "Subtotal: $100.00", "Total: $108.00", "Date: 1/2/24",
     "  Acme Corporation \t", "INVOICE #12345"}

\* lines placed after a run of blank lines
PadPool == {"  Acme Corporation \t", "INVOICE #12345", "Total: $108.00", Line100}

SeqsUpTo(S, n) == UNION {[1..k -> S] : k \in 0..n}

\* k blank lines, empty and whitespace-only in turn
Pad(k) == [i \in 1..k |-> IF i % 2 = 1 THEN "" ELSE "  "]
PadCounts == (VendorScanLimit - 2)..MaxPad

Texts ==
    {E2EText, ConfExampleText}
    \cup LinePool
    \cup {JoinLines(body) : body \in SeqsUpTo(CorePool, MaxBodyLines)}
    \cup {JoinLines(Pad(k) \o <<l>>) : k \in PadCounts, l \in PadPool}

RequestedTypes == FieldTypes \cup {"vendor_name"}

NoRet == [op |-> "none", arg |-> "", value |-> <<>>]

BatchTexts == {E2EText, "", "Acme Corporation\nTotal: $5.00"}
BatchFaults == {"none", "extract_text", "extract_amounts"}
FilePath(i) == <<"invoices", "f" \o ToString(i) \o ".pdf">>
Listings ==
    {[i \in 1..Len(q) |-> [path |-> FilePath(i), text |-> q[i][1], fail |-> q[i][2]]] :
        q \in SeqsUpTo(BatchTexts \X BatchFaults, MaxFiles)}
NoDir == [exists |-> FALSE, files |-> <<>>]
NoDoc == [path |-> <<"invoices", "none.pdf">>, text |-> ""]
\* the function with the empty domain: an empty dict, an empty directory
NoFiles == <<>>

(***************************************************************************)
(* Calls of the extractor on one document                                  *)
(***************************************************************************)
Init ==
    /\ doc \in {[path |-> <<"invoices", "a.pdf">>, text |-> t] : t \in Texts}
    /\ ret = NoRet
    /\ dir = NoDir
    /\ pc = "idle"
    /\ idx = 0
    /\ invoices = <<>>
    /\ errlog = <<>>
    /\ escaped = FALSE
    /\ disk = NoFiles
    /\ cache = NoFiles
    /\ calls = <<>>

batchVars == <<dir, pc, idx, invoices, errlog, escaped>>
toolVars == <<disk, cache, calls>>

\* Each behaviour makes one call: the extractor keeps no state between calls.
CallExtractField ==
    \E field_type \in RequestedTypes :
        /\ ret = NoRet
        /\ ret' = [op |-> "extract_field", arg |-> field_type,
                   value |-> ExtractField(doc.text, field_type)]
        /\ UNCHANGED <<doc, batchVars, toolVars>>

CallExtractVendorName ==
    /\ ret = NoRet
    /\ ret' = [op |-> "extract_vendor_name", arg |-> "",
               value |-> ExtractVendorName(doc.text)]
    /\ UNCHANGED <<doc, batchVars, toolVars>>

CallExtractAmounts ==
    /\ ret = NoRet
    /\ ret' = [op |-> "extract_amounts", arg |-> "",
               value |-> ExtractAmounts(doc.text)]
    /\ UNCHANGED <<doc, batchVars, toolVars>>

CallExtractInvoiceFields ==
    \E f \in FailPoints :
        /\ ret = NoRet
        /\ ret' = [op |-> "extract_invoice_fields", arg |-> f,
                   value |-> ExtractInvoiceFields(doc, f)]
        /\ UNCHANGED <<doc, batchVars, toolVars>>

Next ==
    \/ CallExtractField
    \/ CallExtractVendorName
    \/ CallExtractAmounts
    \/ CallExtractInvoiceFields

Spec == Init /\ [][Next]_vars

(***************************************************************************)
(* InvoiceFieldExtractor.extract_multiple_invoices                         *)
(***************************************************************************)
InitBatch ==
    /\ doc = NoDoc
    /\ ret = NoRet
    /\ dir \in {NoDir} \cup {[exists |-> TRUE, files |-> fs] : fs \in Listings}
    /\ pc = "idle"
    /\ idx = 0
    /\ invoices = <<>>
    /\ errlog = <<>>
    /\ escaped = FALSE
    /\ disk = NoFiles
    /\ cache = NoFiles
    /\ calls = <<>>

\* lines 253-258: the empty list, and the early return on a missing directory
BatchBegin ==
    /\ pc = "idle"
    /\ invoices' = <<>>
    /\ idx' = 1
    /\ pc' = IF dir.exists THEN "loop" ELSE "done"
    /\ UNCHANGED <<doc, ret, dir, errlog, escaped, toolVars>>

\* lines 260-265: one turn of the loop over pdf_dir.glob("*.pdf")
BatchFile ==
    /\ pc = "loop"
    /\ idx <= Len(dir.files)
    /\ \E r \in {ExtractInvoiceFields(dir.files[idx], dir.files[idx].fail)} :
          IF r.raised
          THEN /\ errlog' = errlog \o r.log
                                \o <<<<"extract_multiple_invoices", dir.files[idx].path>>>>
               /\ UNCHANGED invoices
          ELSE /\ errlog' = errlog \o r.log
               /\ invoices' = Append(invoices, r.invoice)
    /\ idx' = idx + 1
    /\ UNCHANGED <<doc, ret, dir, pc, escaped, toolVars>>

\* line 267
BatchReturn ==
    /\ pc = "loop"
    /\ idx > Len(dir.files)
    /\ pc' = "done"
    /\ UNCHANGED <<doc, ret, dir, idx, invoices, errlog, escaped, toolVars>>

\* process_invoices_in_directory, lines 275-287: the dict built from the list
\* extract_multiple_invoices returned
BatchSummarize ==
    /\ pc = "done"
    /\ ret' = [op |-> "process_invoices_in_directory", arg |-> "",
               value |-> ProcessResult(invoices)]
    /\ pc' = "returned"
    /\ UNCHANGED <<doc, dir, idx, invoices, errlog, escaped, toolVars>>

NextBatch == BatchBegin \/ BatchFile \/ BatchReturn \/ BatchSummarize

SpecBatch == InitBatch /\ [][NextBatch]_vars

(***************************************************************************)
(* InvoiceTools: process_single_invoice, get_invoice_details and the cache *)
(***************************************************************************)
MaxCalls == 3

\* InvoiceTools(invoice_directory = "invoices")
InvoiceDirectory == "invoices"

\* positions of the separator "/" in a path string
SlashesOf(s) == {i \in 1..Len(s) : CharAt(s, i) = "/"}

\* the parts of a relative path string as pathlib keeps them: split at "/",
\* empty parts and "." parts dropped
Components(s) ==
    LET cuts == SlashesOf(s) \cup {0, Len(s) + 1}
        starts == {i \in cuts : i <= Len(s)}
        nextCut(i) == Least({j \in cuts : j > i})
        parts == {<<i, SubSeq(s, i + 1, nextCut(i) - 1)>> : i \in starts}
        kept == {pr \in parts : pr[2] # "" /\ pr[2] # "."}
        order(S) == CHOOSE q \in [1..Cardinality(S) -> S] :
                        \A a, b \in 1..Cardinality(S) : a < b => q[a][1] < q[b][1]
    IN [k \in 1..Cardinality(kept) |-> order(kept)[k][2]]

\* Path(self.invoice_directory) / file_name
PdfPath(file_name) == <<InvoiceDirectory>> \o Components(file_name)

\* pdf_path.exists(): a file of the disk, or a directory on the way to one
IsPrefix(p, q) == Len(p) <= Len(q) /\ SubSeq(q, 1, Len(p)) = p
Exists(rel) == \E q \in DOMAIN disk : IsPrefix(rel, q)

\* a file, or a directory, that extract_text cannot read
Unreadable == [text |-> "", fail |-> "extract_text"]

\* what extract_text finds at rel: the file's content; opening a directory raises
Content(rel) ==
    IF rel \in DOMAIN disk THEN disk[rel] ELSE Unreadable

\* the file_name arguments of the calls
ToolNames == {"a.pdf", "sub/b.pdf", "./a.pdf"}

\* the files the invoice directory can hold, and what they can contain
ToolPaths == {<<"a.pdf">>, <<"sub", "b.pdf">>}
ToolContents ==
    {[text |-> ConfExampleText, fail |-> "none"],
     Unreadable}
Disks == UNION {[S -> ToolContents] : S \in SUBSET ToolPaths}

\* self.extractor.extract_invoice_fields(str(pdf_path)) for each file the
\* directory can hold, evaluated once
Extracted ==
    [rel \in ToolPaths \cup {Components(n) : n \in ToolNames} |->
        [c \in ToolContents |->
            ExtractInvoiceFields([path |-> <<InvoiceDirectory>> \o rel, text |-> c.text],
                                 c.fail)]]

\* the dict of lines 38 and 48
ErrorDict(msg) == [error |-> msg]
IsError(result) == "error" \in DOMAIN result

InitTools ==
    /\ doc = NoDoc
    /\ ret = NoRet
    /\ dir = NoDir
    /\ pc = "idle"
    /\ idx = 0
    /\ invoices = <<>>
    /\ errlog = <<>>
    /\ escaped = FALSE
    /\ disk \in Disks
    /\ cache = NoFiles
    /\ calls = <<>>

\* process_single_invoice(file_name), lines 35-48, returning to the caller op
ProcessSingleInvoice(op, file_name) ==
    IF ~Exists(Components(file_name))
    THEN /\ ret' = [op |-> op, arg |-> file_name,
                    value |-> ErrorDict("Invoice file not found: " \o file_name)]
         /\ UNCHANGED <<cache, calls>>
    ELSE \E r \in {Extracted[Components(file_name)][Content(Components(file_name))]} :
            /\ calls' = Append(calls, [file_name |-> file_name, path |-> PdfPath(file_name),
                                        result |-> r])
            /\ IF r.raised
               THEN /\ ret' = [op |-> op, arg |-> file_name,
                               value |-> ErrorDict("str(e)")]
                    /\ UNCHANGED cache
               ELSE /\ cache' = [n \in DOMAIN cache \cup {file_name} |->
                                    IF n = file_name THEN ToDict(r.invoice) ELSE cache[n]]
                    /\ ret' = [op |-> op, arg |-> file_name, value |-> ToDict(r.invoice)]

CallProcessSingleInvoice ==
    \E file_name \in ToolNames :
        /\ Len(calls) < MaxCalls
        /\ ProcessSingleInvoice("process_single_invoice", file_name)
        /\ UNCHANGED <<doc, batchVars, disk>>

\* get_invoice_details that looks at the directory before the cache: a cached
\* record is served only while its file is there
GetInvoiceDetails_Revalidate(file_name) ==
    /\ Len(calls) < MaxCalls
    /\ IF file_name \in DOMAIN cache /\ Exists(Components(file_name))
       THEN /\ ret' = [op |-> "get_invoice_details", arg |-> file_name,
                       value |-> cache[file_name]]
            /\ UNCHANGED <<cache, calls>>
       ELSE ProcessSingleInvoice("get_invoice_details", file_name)
    /\ UNCHANGED <<doc, batchVars, disk>>

\* get_invoice_details(file_name), lines 163-166
GetInvoiceDetails(file_name) ==
    /\ Len(calls) < MaxCalls
    /\ IF file_name \in DOMAIN cache
       THEN /\ ret' = [op |-> "get_invoice_details", arg |-> file_name,
                       value |-> cache[file_name]]
            /\ UNCHANGED <<cache, calls>>
       ELSE ProcessSingleInvoice("get_invoice_details", file_name)
    /\ UNCHANGED <<doc, batchVars, disk>>

CallGetInvoiceDetails == \E file_name \in ToolNames : GetInvoiceDetails(file_name)

\* the environment writes or replaces a file of the directory
FileWrite ==
    \E rel \in ToolPaths, c \in ToolContents :
        /\ disk' = [q \in DOMAIN disk \cup {rel} |-> IF q = rel THEN c ELSE disk[q]]
        /\ disk' # disk
        /\ UNCHANGED <<doc, ret, batchVars, cache, calls>>

\* the environment deletes a file of the directory
FileDelete ==
    \E rel \in DOMAIN disk :
        /\ disk' = [q \in DOMAIN disk \ {rel} |-> disk[q]]
        /\ UNCHANGED <<doc, ret, batchVars, cache, calls>>

NextTools == CallProcessSingleInvoice \/ CallGetInvoiceDetails \/ FileWrite \/ FileDelete

SpecTools == InitTools /\ [][NextTools]_vars

(***************************************************************************)
(* invoice_api: the HTTP handlers                                          *)
(***************************************************************************)
\* extract_multiple_invoices(directory) as one call: the list it returns
ExtractMultipleInvoices(d) ==
    IF ~d.exists THEN <<>>
    ELSE TheOne({[i \in 1..Len(kept) |-> kept[i].invoice] :
                    kept \in {SelectSeq([i \in 1..Len(d.files) |->
                                            ExtractInvoiceFields(d.files[i], d.files[i].fail)],
                                        LAMBDA r : ~r.raised)}})

\* process_invoices_in_directory(directory)
ProcessInvoicesInDirectory(d) ==
    TheOne({ProcessResult(invs) : invs \in {ExtractMultipleInvoices(d)}})

\* what a handler body ends with: a returned value or a raised exception
Returned(value) == [kind |-> "return", value |-> value]
RaisedHTTP(status_code, detail) ==
    [kind |-> "raise", type |-> "HTTPException",
     status_code |-> status_code, detail |-> detail]

\* str(e) of an HTTPException: "<status_code>: <detail>", or the empty string
\* with the starlette releases whose HTTPException defines no __str__
StrOfException(e) == {ToString(e.status_code) \o ": " \o e.detail, ""}

\* the response FastAPI sends for what the handler ends with
Response(outcome) ==
    IF outcome.kind = "return"
    THEN [status |-> 200, body |-> outcome.value]
    ELSE [status |-> outcome.status_code, body |-> [detail |-> outcome.detail]]

\* `except Exception as e: raise HTTPException(status_code=500, detail=str(e))`
\* HTTPException is an Exception, so the clause catches it like any other
ExceptException(outcome) ==
    IF outcome.kind = "raise"
    THEN {RaisedHTTP(500, detail) : detail \in StrOfException(outcome)}
    ELSE {outcome}

\* `except HTTPException: raise` placed before `except Exception`
ExceptHTTPExceptionFirst(outcome) ==
    IF outcome.kind = "raise" /\ outcome.type = "HTTPException"
    THEN {outcome}
    ELSE ExceptException(outcome)

\* lines 79-86: the records a query matches
QueryMatches(inv, query_lower) ==
    \/ Contains(Lower(inv.invoice_number), query_lower)
    \/ Contains(inv.invoice_date, query_lower)
    \/ Contains(Lower(inv.file_name), query_lower)
    \/ Contains(Lower(inv.vendor_name), query_lower)

\* search_invoices, lines 72-92: the try block
SearchBody(query, d) ==
    IF query = "" THEN RaisedHTTP(400, "Query parameter required")
    ELSE TheOne({Returned([query |-> query, matches |-> Len(matches), invoices |-> matches]) :
                    matches \in {SelectSeq(ProcessInvoicesInDirectory(d).invoices,
                                           LAMBDA inv : QueryMatches(inv, Lower(query)))}})

\* get_invoice_details, lines 102-108: the try block
DetailsBody(file_name, d) ==
    LET found == {i \in 1..Len(d.files) : d.files[i].path = PdfPath(file_name)}
    IN IF ~d.exists \/ found = {}
       THEN RaisedHTTP(404, "Invoice not found")
       ELSE TheOne({Returned(ToDict(ExtractInvoiceFields(file, file.fail).invoice)) :
                        file \in {d.files[Least(found)]}})

CsvFieldNames ==
    <<"file_name", "invoice_number", "invoice_date", "due_date", "vendor_name",
      "customer_name", "subtotal", "tax_amount", "total_amount", "confidence_score">>

\* export_invoices, lines 120-160: the try block; the CSV text is kept as the
\* header and the rows handed to the writer
ExportBody(output_format, d) ==
    TheOne({
       IF Lower(output_format) = "json" THEN Returned(result)
       ELSE IF Lower(output_format) = "csv"
       THEN IF Len(result.invoices) = 0
            THEN Returned([error |-> "No invoices to export"])
            ELSE Returned([format |-> "csv",
                           data |-> <<CsvFieldNames>> \o
                                [i \in 1..Len(result.invoices) |->
                                    [k \in 1..Len(CsvFieldNames) |->
                                        result.invoices[i][CsvFieldNames[k]]]],
                           count |-> Len(result.invoices)])
       ELSE RaisedHTTP(400, "Unsupported format") :
            result \in {ProcessInvoicesInDirectory(d)}})

\* the requests sent
Queries == {"", "inv", "ACME", "F1.pdf", "2024"}
RequestedFiles == {"f1.pdf", "f2.pdf", "f9.pdf"}
OutputFormats == {"json", "CSV", "csv", "xml", ""}

InitApi ==
    /\ doc = NoDoc
    /\ ret = NoRet
    /\ dir \in {NoDir} \cup {[exists |-> TRUE, files |-> fl] : fl \in Listings}
    /\ pc = "idle"
    /\ idx = 0
    /\ invoices = <<>>
    /\ errlog = <<>>
    /\ escaped = FALSE
    /\ disk = NoFiles
    /\ cache = NoFiles
    /\ calls = <<>>

\* GET /api/invoices/search?query=...
search_invoices ==
    \E query \in Queries :
        /\ ret = NoRet
        /\ \E outcome \in ExceptException(SearchBody(query, dir)) :
              ret' = [op |-> "search_invoices", arg |-> query, value |-> Response(outcome)]
        /\ UNCHANGED <<doc, batchVars, toolVars>>

\* GET /api/invoices/{file_name}
get_invoice_details ==
    \E file_name \in RequestedFiles :
        /\ ret = NoRet
        /\ \E outcome \in ExceptHTTPExceptionFirst(DetailsBody(file_name, dir)) :
              ret' = [op |-> "api_get_invoice_details", arg |-> file_name,
                      value |-> Response(outcome)]
        /\ UNCHANGED <<doc, batchVars, toolVars>>

\* POST /api/invoices/export?output_format=...
export_invoices ==
    \E output_format \in OutputFormats :
        /\ ret = NoRet
        /\ \E outcome \in ExceptException(ExportBody(output_format, dir)) :
              ret' = [op |-> "export_invoices", arg |-> output_format,
                      value |-> Response(outcome)]
        /\ UNCHANGED <<doc, batchVars, toolVars>>

NextApi == search_invoices \/ get_invoice_details \/ export_invoices

SpecApi == InitApi /\ [][NextApi]_vars

(***************************************************************************)
(* Properties                                                              *)
(***************************************************************************)
IsCall(op) == ret.op = op

\* 1-based indices of the rules of field_type that match text
MatchingRules(text, field_type) ==
    {i \in 1..Len(PATTERNS[field_type]) : Search(PATTERNS[field_type][i], text).ok}

\* the files of the listing whose text decoding raises
Undecodable == {i \in 1..Len(dir.files) : dir.files[i].fail = "extract_text"}

\* C1: a batch over N documents of which exactly one fails text decoding (the
\* others raise nothing) returns N-1 records, none of them for the failing
\* document, logs the failure and lets no exception reach the caller.
C1_BatchSkipsUndecodable ==
    (/\ pc = "done"
     /\ dir.exists
     /\ Cardinality(Undecodable) = 1
     /\ \A i \in 1..Len(dir.files) : dir.files[i].fail \in {"none", "extract_text"})
    => /\ Len(invoices) = Len(dir.files) - 1
       /\ \A j \in 1..Len(invoices) :
            \A i \in Undecodable : invoices[j].file_name # PathName(dir.files[i].path)
       /\ errlog # <<>>
       /\ ~escaped

\* C2: assembling the five-line end-to-end text yields invoice number
\* INV-2024-001, invoice date 01/15/2024, subtotal 100.00, tax 8.00, total
\* 108.00 (taken from the Total line, not the Subtotal line) and a confidence
\* strictly between 0.8 and 1.0.
C2_EndToEnd ==
    (IsCall("extract_invoice_fields") /\ ret.arg = "none" /\ doc.text = E2EText)
    => /\ ret.value.invoice.invoice_number = "INV-2024-001"
       /\ ret.value.invoice.invoice_date = "01/15/2024"
       /\ ret.value.invoice.subtotal = 10000
       /\ ret.value.invoice.tax_amount = 800
       /\ ret.value.invoice.total_amount = 10800
       /\ ret.value.invoice.confidence_score > TotalPresentConf
       /\ ret.value.invoice.confidence_score < ConfOne

\* C3: for a recognized field type, when i is the lowest index of a rule that
\* matches the text, extract_field returns the trimmed capture of rule i with
\* confidence 1.0 - 0.1*i, whatever the later rules match, and the confidence
\* is not negative.
C3_FirstRuleWins ==
    (IsCall("extract_field") /\ ret.arg \in FieldTypes)
    => \A M \in {MatchingRules(doc.text, ret.arg)} :
          M # {} =>
            \A i \in {Least(M)} :
              /\ ret.value[1] =
                    Some(Strip(Group1(doc.text, Search(PATTERNS[ret.arg][i], doc.text))))
              /\ ret.value[2] = ConfOne - ConfTenth * (i - 1)
              /\ ret.value[2] >= 0

\* a rule other than the first is the first to match while a later one matches too
C3_Witness ==
    /\ IsCall("extract_field")
    /\ ret.arg = "invoice_number"
    /\ MatchingRules(doc.text, ret.arg) = {2, 3}
    /\ ret.value[2] = ConfOne - ConfTenth

\* the three contributions to the document confidence, from the returned record
\* and the confidences extract_field reports for invoice number and invoice date
Contribution(invoice, text) ==
    [number |-> IF invoice.invoice_number # ""
                THEN ExtractField(text, "invoice_number")[2] ELSE 0,
     date |-> IF invoice.invoice_date # ""
              THEN ExtractField(text, "invoice_date")[2] ELSE 0,
     total |-> IF invoice.total_amount > 0 THEN TotalPresentConf ELSE 0]

\* C4: the confidence of a fully assembled record is the arithmetic mean of the
\* non-zero ones among three contributions (invoice-number confidence if a
\* number was found, invoice-date confidence if a date was found, 0.8 if
\* total_amount > 0), and 0 when all three are zero; nothing else enters it.
C4_ConfidenceFormula ==
    (IsCall("extract_invoice_fields") /\ ret.arg = "none")
    => \A c \in {Contribution(ret.value.invoice, doc.text)} :
         \A n \in {Cardinality({k \in DOMAIN c : c[k] # 0})} :
            IF n = 0 THEN ret.value.invoice.confidence_score = 0
            ELSE ret.value.invoice.confidence_score * n = c.number + c.date + c.total

\* contributions 1.0, 0.9 and 0.8 give 0.9
C4_Witness ==
    /\ IsCall("extract_invoice_fields")
    /\ ret.arg = "none"
    /\ Contribution(ret.value.invoice, doc.text) =
            [number |-> ConfOne, date |-> ConfOne - ConfTenth, total |-> TotalPresentConf]
    /\ ret.value.invoice.confidence_score = ConfOne - ConfTenth

\* C5: every record extract_invoice_fields returns, whether or not a step
\* failed, has its confidence within [0,1] and no negative amount.
C5_RecordRanges ==
    IsCall("extract_invoice_fields")
    => /\ ret.value.invoice.confidence_score >= 0
       /\ ret.value.invoice.confidence_score <= ConfOne
       /\ ret.value.invoice.subtotal >= 0
       /\ ret.value.invoice.tax_amount >= 0
       /\ ret.value.invoice.total_amount >= 0

\* a full record with the highest confidence and amounts above zero
C5_Witness ==
    /\ IsCall("extract_invoice_fields")
    /\ ret.arg = "none"
    /\ ret.value.invoice.confidence_score > 0
    /\ ret.value.invoice.total_amount > 0
    /\ ret.value.invoice.subtotal > 0

\* position in Steps of the statement group f; past the end for "none"
StepIndex(f) == IF f = "none" THEN Len(Steps) + 1 ELSE Least({i \in 1..Len(Steps) : Steps[i] = f})

\* the statement group that writes each field the extractor fills
WrittenBy ==
    [raw_text |-> "extract_text", invoice_number |-> "invoice_number",
     invoice_date |-> "invoice_date", due_date |-> "due_date",
     total_amount |-> "extract_amounts", tax_amount |-> "extract_amounts",
     subtotal |-> "extract_amounts", vendor_name |-> "extract_vendor_name",
     confidence_score |-> "confidence"]

\* C6: extract_invoice_fields never raises; when a step fails the record it
\* returns has, in every field written before the failing step, the value the
\* call without a failure writes, and in every other field its default.
C6_NeverRaisesPartialRecord ==
    IsCall("extract_invoice_fields")
    => /\ ~ret.value.raised
       /\ \A full \in {ExtractInvoiceFields(doc, "none").invoice} :
            \A k \in DOMAIN full :
                ret.value.invoice[k] =
                    IF k \in DOMAIN WrittenBy /\ StepIndex(WrittenBy[k]) >= StepIndex(ret.arg)
                    THEN DefaultInvoice(PathName(doc.path))[k]
                    ELSE full[k]

\* amount parsing fails after an invoice number was written; the text has a total
C6_Witness ==
    /\ IsCall("extract_invoice_fields")
    /\ ret.arg = "extract_amounts"
    /\ ~ret.value.raised
    /\ ret.value.invoice.invoice_number # ""
    /\ ret.value.invoice.raw_text = doc.text
    /\ ret.value.invoice.total_amount = 0
    /\ MatchingRules(doc.text, "total_amount") # {}

\* C7: extract_field returns None with confidence 0.0 when no rule of the
\* requested type matches the text, and when the type is not a recognized one.
C7_NoMatchIsAbsent ==
    IsCall("extract_field")
    => ((ret.arg \notin FieldTypes \/ MatchingRules(doc.text, ret.arg) = {})
        => ret.value = <<None, 0>>)

\* an unrecognized type requested on a text other types match
C7_Witness ==
    /\ IsCall("extract_field")
    /\ ret.arg \notin FieldTypes
    /\ doc.text = E2EText
    /\ ret.value = <<None, 0>>

\* C8: extract_amounts has the key total, tax or subtotal exactly when a rule
\* of the corresponding amount type matches the text: no key for an unmatched
\* type, and a key for a matched amount even when its value is 0.00.
C8_AmountKeysIffMatched ==
    IsCall("extract_amounts")
    => /\ ~ret.value.raised
       /\ \A k \in DOMAIN AmountField :
            k \in DOMAIN ret.value.amounts <=> MatchingRules(doc.text, AmountField[k]) # {}

\* a matched tax of 0.00 is present, the unmatched total and subtotal are absent
C8_Witness ==
    /\ IsCall("extract_amounts")
    /\ DOMAIN ret.value.amounts = {"tax"}
    /\ ret.value.amounts["tax"][1] = 0

\* does a trimmed line qualify as a vendor name
Qualifies(line) ==
    /\ Len(Strip(line)) > VendorMinLen
    /\ Len(Strip(line)) < VendorMaxLen
    /\ \A i \in 1..Len(StopList) : ~Contains(Lower(Strip(line)), StopList[i])

\* first qualifying line of lines with confidence 0.7, else the empty string with 0.0
FirstQualifying(lines) ==
    IF \E i \in 1..Len(lines) : Qualifies(lines[i])
    THEN <<Strip(lines[Least({i \in 1..Len(lines) : Qualifies(lines[i])})]), VendorConf>>
    ELSE <<"", 0>>

\* the lines of text that are not empty or whitespace-only
NonEmptyLines(text) == SelectSeq(SplitLines(text), LAMBDA l : Strip(l) # "")

\* C9: extract_vendor_name examines the first 20 non-empty lines: blank lines
\* do not count against the limit, so a qualifying line among the first 20
\* non-empty lines is found even when more than 20 lines precede it.
C9_ScansNonEmptyLines ==
    IsCall("extract_vendor_name")
    => ret.value = FirstQualifying(Take(NonEmptyLines(doc.text), VendorScanLimit))

\* C10: among the lines it scans (the first 20 of the text) extract_vendor_name
\* returns the first whose trimmed length is strictly between 5 and 100 and
\* whose lowercased content has no stoplist keyword, with confidence 0.7; the
\* empty string with confidence 0.0 when none qualifies.
C10_FirstQualifyingScannedLine ==
    IsCall("extract_vendor_name")
    => ret.value = FirstQualifying(Take(SplitLines(doc.text), VendorScanLimit))

\* a header line with a stoplist keyword is skipped and the next line selected
C10_Witness ==
    /\ IsCall("extract_vendor_name")
    /\ doc.text = "INVOICE #12345\n  Acme Corporation \t"
    /\ ret.value = <<"Acme Corporation", VendorConf>>

\* C11: the summary of process_invoices_in_directory has total_amount equal to
\* the sum of the records' total_amount, total_tax equal to the sum of their
\* tax_amount, and average_confidence equal to the arithmetic mean of their
\* confidence_score; for no records average_confidence is 0 and the call returns.
C11_SummaryTotals ==
    IsCall("process_invoices_in_directory")
    => \A n \in {Len(ret.value.invoices)} :
        /\ ret.value.summary.total_amount =
                SumSeq([i \in 1..n |-> ret.value.invoices[i].total_amount])
        /\ ret.value.summary.total_tax =
                SumSeq([i \in 1..n |-> ret.value.invoices[i].tax_amount])
        /\ ret.value.summary.average_confidence[2] > 0
        /\ ret.value.summary.average_confidence[1] * n =
                ret.value.summary.average_confidence[2]
                    * SumSeq([i \in 1..n |-> ret.value.invoices[i].confidence_score])
        /\ n = 0 => ret.value.summary.average_confidence[1] = 0

\* two records with different totals and confidences, one of them with a tax
C11_Witness ==
    /\ IsCall("process_invoices_in_directory")
    /\ Len(ret.value.invoices) = 2
    /\ ret.value.invoices[1].total_amount > ret.value.invoices[2].total_amount
    /\ ret.value.invoices[2].total_amount > 0
    /\ ret.value.invoices[1].confidence_score > ret.value.invoices[2].confidence_score
    /\ ret.value.summary.total_tax > 0
    /\ ret.value.summary.average_confidence[1] > 0

\* C13 as stated: for every file name that designates an existing file under
\* the invoice directory, get_invoice_details(file_name) returns without an
\* error a record whose file_name equals the requested file_name, whether it
\* comes from the cache or from processing.
C13_DetailsFileName ==
    [][\A n \in ToolNames :
          (GetInvoiceDetails(n) /\ Components(n) \in DOMAIN disk)
          => (~IsError(ret'.value) /\ ret'.value.file_name = n)]_vars

\* C13 amended: the same for every file name without a directory part (no "/")
\* that designates an existing file of the invoice directory.
C13_DetailsPlainFileName ==
    [][\A n \in ToolNames :
          (GetInvoiceDetails(n) /\ Components(n) \in DOMAIN disk /\ SlashesOf(n) = {})
          => (~IsError(ret'.value) /\ ret'.value.file_name = n)]_vars

\* get_invoice_details("a.pdf") has returned the record of the one extraction
\* made, with the requested name; the file has been replaced since
C13_Witness ==
    /\ IsCall("get_invoice_details")
    /\ ret.arg = "a.pdf"
    /\ ~IsError(ret.value)
    /\ <<"a.pdf">> \in DOMAIN disk
    /\ ret.value.file_name = "a.pdf"
    /\ Len(calls) = 1
    /\ calls[1].file_name = "a.pdf"
    /\ ret.value.raw_text = ConfExampleText
    /\ disk[<<"a.pdf">>] = Unreadable

\* the calls of process_single_invoice(n) so far that returned a record
StoredBy(n) == {i \in 1..Len(calls) : calls[i].file_name = n /\ ~calls[i].result.raised}

\* greatest element of a non-empty set of numbers
Greatest(S) == CHOOSE i \in S : \A j \in S : j <= i

\* C14: once process_single_invoice(f) has returned a record, every later
\* get_invoice_details(f) returns the record of the most recent such call and
\* extracts nothing, whatever happened to the file since; no cache entry is
\* ever removed; a call ending in 'file not found' leaves the cache as it was.
C14_CacheServesLastRecord ==
    [][/\ \A n \in DOMAIN cache : n \in DOMAIN cache'
       /\ \A n \in ToolNames :
            /\ (GetInvoiceDetails(n) /\ StoredBy(n) # {})
               => /\ ret'.value = ToDict(calls[Greatest(StoredBy(n))].result.invoice)
                  /\ calls' = calls
            /\ ((\/ GetInvoiceDetails(n)
                 \/ ProcessSingleInvoice("process_single_invoice", n))
                /\ ret'.value = ErrorDict("Invoice file not found: " \o n))
               => cache' = cache]_vars

\* a.pdf was processed twice, readable and then unreadable, and deleted;
\* get_invoice_details("a.pdf") has returned the record of the second call
C14_Witness ==
    /\ IsCall("get_invoice_details")
    /\ ret.arg = "a.pdf"
    /\ Len(calls) = 2
    /\ StoredBy("a.pdf") = {1, 2}
    /\ calls[1].result.invoice.raw_text = ConfExampleText
    /\ calls[2].result.invoice.raw_text = ""
    /\ ret.value = ToDict(calls[2].result.invoice)
    /\ <<"a.pdf">> \notin DOMAIN disk

\* C15: when a step of extract_invoice_fields fails, the record returned has
\* confidence_score 0, its default, whichever fields were written before the
\* failure: the confidence is written only after every step has completed.
C15_FailureLeavesZeroConfidence ==
    (IsCall("extract_invoice_fields") /\ ret.arg # "none")
    => ret.value.invoice.confidence_score = 0

\* the vendor step fails after a number, a date and a total above zero were
\* written, which without the failure give a confidence above zero
C15_Witness ==
    /\ IsCall("extract_invoice_fields")
    /\ ret.arg = "extract_vendor_name"
    /\ ret.value.invoice.invoice_number # ""
    /\ ret.value.invoice.invoice_date # ""
    /\ ret.value.invoice.total_amount > 0
    /\ ret.value.invoice.confidence_score = 0
    /\ ExtractInvoiceFields(doc, "none").invoice.confidence_score > 0

\* C16: a client error raised inside a handler reaches the client with its own
\* status: an empty search query is answered with 400 'Query parameter
\* required', an export format other than json or csv with 400 'Unsupported
\* format', neither with 500, as the 404 of the details handler is passed on.
C16_ClientErrorsKeepStatus ==
    /\ (IsCall("search_invoices") /\ ret.arg = "")
       => ret.value = [status |-> 400, body |-> [detail |-> "Query parameter required"]]
    /\ (IsCall("export_invoices") /\ Lower(ret.arg) \notin {"json", "csv"})
       => ret.value = [status |-> 400, body |-> [detail |-> "Unsupported format"]]
    /\ (IsCall("api_get_invoice_details") /\ ret.value.status >= 400)
       => ret.value = [status |-> 404, body |-> [detail |-> "Invoice not found"]]

====
